---- MODULE Spec2Model ----
(***************************************************************************)
(* Bitbucket Time Report: the page scan of the content script              *)
(* (extractPRsFromCurrentPage: row parsing, date extraction, timeline      *)
(* synthesis) and the report run of the popup (click handler,              *)
(* processAllPullRequests).                                                *)
(*                                                                         *)
(* Time is counted in hours.  Hour 0 is local midnight of the 1st of the   *)
(* current month; a Date object is the integer number of hours since       *)
(* then (getTime()).  The current month is the days 1..MonthDays; day      *)
(* numbers <= 0 lie in the previous month, day numbers > MonthDays in the  *)
(* next one.                                                               *)
(***************************************************************************)
EXTENDS Integers, Sequences, FiniteSets, TLC

VARIABLES
    env,        \* the browser's clock and time zone: firstDow, dst, tz, now
    page,       \* the rows of the document the content script sees
    scanPc,     \* "idle" before extractPRsFromCurrentPage, then "done" or "hung"
    rawPRs,     \* rawPRs after the row loop and the sort of line 694
    timeline,   \* timeline after the sort of line 834
    site,       \* the merged-PR list of the user: its pages and next control
    identity,   \* the uuid the page context answers getUserUUID with
    settings,   \* chrome.storage.sync: organization and project
    dom,        \* what getCurrentUserUUID reads of the document
    uuidResponse,   \* the answer of the listener to getUserUUID, once sent
    clipboard,  \* navigator.clipboard: the pending writeText and the text held
    sanitized,  \* an argument of sanitizeText and, once it has run, its result
    listener,   \* a message for the content script's listener and what it did with it
    doc,        \* the tab: its load state, the list page shown, the one due
    btnDisabled,    \* generateReportButton.disabled
    allPRs,         \* the popup's accumulator (line 14)
    status,         \* the status area: message and class
    extractedData,  \* the formatted report (line 13)
    resultsShown,   \* results.style.display = 'block'
    copyHidden,     \* copyButton has class hidden
    runs            \* the invocations of the click handler that are tracked

scanVars == <<env, page, scanPc, rawPRs, timeline>>

siteVars == <<site, identity, settings, dom, uuidResponse, clipboard, sanitized,
              listener>>

popupVars == <<btnDisabled, allPRs, status, extractedData, resultsShown, copyHidden>>

vars == <<env, page, scanPc, rawPRs, timeline, site, identity, settings, dom,
          uuidResponse, clipboard, sanitized, listener, doc,
          btnDisabled, allPRs, status, extractedData, resultsShown, copyHidden, runs>>

(***************************************************************************)
(* Bounds of the model.                                                    *)
(***************************************************************************)
MonthDays == 8          \* days of the current month that the model covers
MaxRows == 2            \* rows of a page whose dates come from elements
MaxPhrases == 2         \* dated phrases in the text of a row
MaxInvocations == 2     \* invocations of the click handler that are tracked
MaxSitePages == 2       \* distinct pages of the merged-PR list
MaxEntries == 3         \* entries accumulated when the report is formatted

(***************************************************************************)
(* The local calendar (Date.getDate, Date.getDay, new Date(y, m, d)).      *)
(***************************************************************************)
HoursPerDay == 24

\* The day of the week of local day d, 0 = Sunday .. 6 = Saturday.
DayOfWeek(d) == (env.firstDow + d - 1) % 7

\* The day on which the zone changes its clock (at 02:00 local): the first
\* Sunday of the month.  Only read when env.dst # "none".
DstDay == CHOOSE d \in 1..7 : DayOfWeek(d) = 0

\* What the clock change adds to the length of its day, in hours.
DstShift == CASE env.dst = "spring" -> -1
              [] env.dst = "fall" -> 1
              [] OTHER -> 0

\* new Date(year, month, d).getTime(): local midnight of day d.
LocalMidnight(d) ==
    HoursPerDay * (d - 1) + (IF d > DstDay THEN DstShift ELSE 0)

\* Date.getDate() (with the month: values outside 1..MonthDays are days of
\* the neighbouring months) of the instant t.
Min(a, b) == IF a <= b THEN a ELSE b

DateOf(t) ==
    IF t >= LocalMidnight(DstDay + 1)
    THEN ((t - DstShift) \div HoursPerDay) + 1
    ELSE Min((t \div HoursPerDay) + 1, DstDay)

\* Date.getDay() of the instant t.
GetDay(t) == DayOfWeek(DateOf(t))

IsWeekend(dow) == dow = 0 \/ dow = 6

\* d.getFullYear() === currentYear && d.getMonth() + 1 === currentMonth
InCurrentMonth(t) == DateOf(t) \in 1..MonthDays

(***************************************************************************)
(* The text of a row.  A row's text is a sequence of dated phrases; phrase *)
(* p is p.gap characters of other text (title, names, spaces; no keyword   *)
(* and no date in it), then the keyword p.kw and a space unless p.kw is    *)
(* "none", then the date text: an ISO date "YYYY-MM-DD" of day p.val       *)
(* (kind "iso"), "N days ago" (kind "days") or "N hours ago" (kind         *)
(* "hours") with N = p.val.                                                *)
(***************************************************************************)
KwLen(kw) == CASE kw = "merged" -> 6
               [] kw = "approved" -> 8
               [] kw = "updated" -> 7
               [] OTHER -> 0

\* Characters of the keyword and the white space after it.
KwChars(p) == IF p.kw = "none" THEN 0 ELSE KwLen(p.kw) + 1

Digits(n) == IF n < 10 THEN 1 ELSE 2

\* Characters of the date text of phrase p.
DateChars(p) == CASE p.kind = "iso" -> 10
                  [] p.kind = "days" -> Digits(p.val) + 9
                  [] OTHER -> Digits(p.val) + 10

PhraseChars(p) == p.gap + KwChars(p) + DateChars(p)

RECURSIVE TextChars(_)
TextChars(text) ==
    IF text = <<>> THEN 0
    ELSE PhraseChars(Head(text)) + TextChars(Tail(text))

\* Offset in the row text of the keyword of phrase i, and of its date text.
KwStart(text, i) == TextChars(SubSeq(text, 1, i - 1)) + text[i].gap

DateStart(text, i) == KwStart(text, i) + KwChars(text[i])

\* contextLower.includes(word), for the context text[lo, hi): some keyword
\* of the row lies with its first n characters inside the window.
ContextHas(text, lo, hi, kw, n) ==
    \E j \in 1..Len(text) :
        /\ text[j].kw = kw
        /\ KwStart(text, j) >= lo
        /\ KwStart(text, j) + n <= hi

(***************************************************************************)
(* Date extraction from the row text (Method 2, lines 298-455).            *)
(***************************************************************************)
ContextChars == 30      \* characters of context kept on each side of a match
PriorityMerge == 100
PriorityRelative == 90
PriorityUnclear == 50
PriorityCreateUpdate == 2
PriorityApproval == 1

\* new Date("YYYY-MM-DD"): midnight UTC of day d; the zone is env.tz hours
\* east of UTC at the start of the month.
ParseISO(d) == env.tz + HoursPerDay * (d - 1)

\* The priority and type given to an absolute date by its context [lo, hi).
ClassifyContext(text, lo, hi) ==
    IF ContextHas(text, lo, hi, "merged", 5)
    THEN [priority |-> PriorityMerge, dateType |-> "merge"]
    ELSE IF ContextHas(text, lo, hi, "approved", 8)
    THEN [priority |-> PriorityApproval, dateType |-> "approval"]
    ELSE IF ContextHas(text, lo, hi, "updated", 7)
    THEN [priority |-> PriorityCreateUpdate, dateType |-> "creation/update"]
    ELSE [priority |-> PriorityUnclear, dateType |-> "unclear"]

Max(a, b) == IF a >= b THEN a ELSE b

\* The candidate pushed for a match of an absolute pattern that starts at
\* offset idx, is n characters long and captures the date of phrase i.
AbsoluteCandidate(text, i, idx, n) ==
    LET c == ClassifyContext(text, Max(0, idx - ContextChars), idx + n + ContextChars)
    IN  [date |-> ParseISO(text[i].val), isRelative |-> FALSE,
         priority |-> c.priority, dateType |-> c.dateType, phrase |-> i]

\* The candidate pushed for "N days ago" (relativePatterns, lines 319-353).
RelativeCandidate(text, i) ==
    [date |-> env.now - text[i].val * HoursPerDay, isRelative |-> TRUE,
     priority |-> PriorityRelative, dateType |-> "relative", phrase |-> i]

Indices(text, Keep(_)) ==
    SelectSeq([i \in 1..Len(text) |-> i], Keep)

\* allDatesInText after both pattern loops: the relative dates, then the
\* matches of /merged?\s+(\d{4}-\d{2}-\d{2})/gi, then those of the generic
\* ISO pattern (the other patterns match no text of this shape).
AllDatesInText(text) ==
    LET rel == Indices(text, LAMBDA i : text[i].kind = "days")
        mrg == Indices(text, LAMBDA i : text[i].kind = "iso" /\ text[i].kw = "merged")
        iso == Indices(text, LAMBDA i : text[i].kind = "iso")
    IN  [k \in 1..Len(rel) |-> RelativeCandidate(text, rel[k])]
        \o [k \in 1..Len(mrg) |->
               AbsoluteCandidate(text, mrg[k], KwStart(text, mrg[k]),
                                 KwChars(text[mrg[k]]) + DateChars(text[mrg[k]]))]
        \o [k \in 1..Len(iso) |->
               AbsoluteCandidate(text, iso[k], DateStart(text, iso[k]),
                                 DateChars(text[iso[k]]))]

\* The comparator with its last tie-break reversed.
DateBefore_EarlierWins(a, b) ==
    IF a.priority # b.priority THEN a.priority > b.priority
    ELSE IF a.isRelative # b.isRelative THEN a.isRelative
    ELSE a.date < b.date

\* The comparator of lines 413-420: a sorts before b.
DateBefore(a, b) ==
    IF a.priority # b.priority THEN a.priority > b.priority
    ELSE IF a.isRelative # b.isRelative THEN a.isRelative
    ELSE a.date > b.date

\* Array.prototype.sort (stable) under a "sorts before" relation.
InsertSorted(s, x, Before(_, _)) ==
    LET hits == {k \in 1..Len(s) : Before(x, s[k])}
        pos == IF hits = {} THEN Len(s) + 1
               ELSE CHOOSE k \in hits : \A j \in hits : k <= j
    IN  SubSeq(s, 1, pos - 1) \o <<x>> \o SubSeq(s, pos, Len(s))

StableSort(s, Before(_, _)) ==
    LET f[n \in 0..Len(s)] ==
            IF n = 0 THEN <<>> ELSE InsertSorted(f[n - 1], s[n], Before)
    IN  f[Len(s)]

CurrentMonthDates(text) ==
    SelectSeq(AllDatesInText(text), LAMBDA c : InCurrentMonth(c.date))

\* The candidate Method 2 selects: <<>> when the text has no date at all,
\* else the first of the current-month candidates after the sort, else
\* (lines 443-453) the first of all candidates after the sort.
SelectedCandidate(text) ==
    IF CurrentMonthDates(text) # <<>>
    THEN <<StableSort(CurrentMonthDates(text), DateBefore)[1]>>
    ELSE IF AllDatesInText(text) # <<>>
    THEN <<StableSort(AllDatesInText(text), DateBefore)[1]>>
    ELSE <<>>

(***************************************************************************)
(* One row of the page (the loop body, lines 168-685).  A row is           *)
(* [title, bug, elem, text]: its title, whether title or branch name hold  *)
(* a bug keyword, the date of its merge-date element (<<>> when it has     *)
(* none that parses) and its text.                                         *)
(***************************************************************************)
\* Method 3 (lines 458-484): the first pattern that matches decides.
FallbackPatternDate(text) ==
    LET mrg == Indices(text, LAMBDA i : text[i].kind = "iso" /\ text[i].kw = "merged")
        iso == Indices(text, LAMBDA i : text[i].kind = "iso")
    IN  IF mrg # <<>> THEN <<ParseISO(text[mrg[1]].val)>>
        ELSE IF iso # <<>> THEN <<ParseISO(text[iso[1]].val)>>
        ELSE <<>>

\* Method 4 (lines 488-551): its patterns carry no g flag, so exec() finds
\* the first match again and again and the while loop of line 502 never
\* ends once one of them matches.
RelativeLoopHangs(text) ==
    \E i \in 1..Len(text) : text[i].kind \in {"hours", "days"}

\* prDate after the four methods; hang: Method 4 was reached and loops.
ResolveDate(row) ==
    IF row.elem # <<>> THEN [hang |-> FALSE, prDate |-> row.elem]
    ELSE IF SelectedCandidate(row.text) # <<>>
    THEN [hang |-> FALSE, prDate |-> <<SelectedCandidate(row.text)[1].date>>]
    ELSE IF FallbackPatternDate(row.text) # <<>>
    THEN [hang |-> FALSE, prDate |-> FallbackPatternDate(row.text)]
    ELSE [hang |-> RelativeLoopHangs(row.text), prDate |-> <<>>]

\* The row parser without the month test of line 562.
ParseRow_NoMonthFilter(row) ==
    LET r == ResolveDate(row)
    IN  IF r.prDate # <<>>
        THEN <<[date |-> r.prDate[1],
                type |-> IF row.bug THEN "B" ELSE "F",
                title |-> row.title]>>
        ELSE <<>>

\* The record pushed to rawPRs for the row, if any (lines 553-681).
ParseRow(row) ==
    LET r == ResolveDate(row)
    IN  IF r.prDate # <<>> /\ InCurrentMonth(r.prDate[1])
        THEN <<[date |-> r.prDate[1],
                type |-> IF row.bug THEN "B" ELSE "F",
                title |-> row.title]>>
        ELSE <<>>

RECURSIVE ParseRows(_)
ParseRows(rows) ==
    IF rows = <<>> THEN <<>>
    ELSE ParseRow(Head(rows)) \o ParseRows(Tail(rows))

(***************************************************************************)
(* Timeline synthesis (lines 693-844).  A timeline item is [date, entry];  *)
(* entry stands for the rendered line "(Month day, DayName) type, status:  *)
(* title" and is the record of its parts.                                  *)
(***************************************************************************)
TimelineItem(t, pr, st) ==
    [date |-> t,
     entry |-> [day |-> DateOf(t), dow |-> GetDay(t), type |-> pr.type,
                status |-> st, title |-> pr.title]]

\* The progress items for progressDate = start + day * 24h, day = from ..
\* daysDiff - 1, without the weekend days.
ProgressItems(start, from, daysDiff, pr) ==
    IF daysDiff - 1 < from THEN <<>>
    ELSE SelectSeq([k \in 1..(daysDiff - from) |->
                       TimelineItem(start + (from + k - 1) * HoursPerDay, pr, "P")],
                   LAMBDA it : ~IsWeekend(it.entry.dow))

\* Lines 715-754: the first record, from the start of the month.
MonthStartItems(pr) ==
    LET monthStartUTC == LocalMidnight(1)
        currentDateUTC == LocalMidnight(DateOf(pr.date))
        daysDiff == (currentDateUTC - monthStartUTC) \div HoursPerDay
    IN  ProgressItems(monthStartUTC, 0, daysDiff, pr)

\* Lines 758-808: the days between the previous record and this one.
GapItems(previousPR, currentPR) ==
    LET previousDateUTC == LocalMidnight(DateOf(previousPR.date))
        currentDateUTC == LocalMidnight(DateOf(currentPR.date))
        daysDiff == (currentDateUTC - previousDateUTC) \div HoursPerDay
    IN  IF daysDiff > 1
        THEN ProgressItems(previousDateUTC, 1, daysDiff, currentPR)
        ELSE <<>>

\* The done entry without the weekend test.
DoneItems_NoWeekendCheck(pr) == <<TimelineItem(pr.date, pr, "D")>>

\* The done entry with the weekend test reduced to Sunday.
DoneItems_SundayOnly(pr) ==
    IF GetDay(pr.date) # 0 THEN <<TimelineItem(pr.date, pr, "D")>> ELSE <<>>

\* Lines 810-830: the done entry, unless the record is dated on a weekend.
DoneItems(pr) ==
    IF ~IsWeekend(GetDay(pr.date)) THEN <<TimelineItem(pr.date, pr, "D")>> ELSE <<>>

\* timeline after the loop of lines 710-831 over the sorted records.
GenerateTimeline(raw) ==
    LET f[i \in 0..Len(raw)] ==
            IF i = 0 THEN <<>>
            ELSE f[i - 1]
                 \o (IF i = 1 THEN MonthStartItems(raw[i]) ELSE <<>>)
                 \o (IF i > 1 THEN GapItems(raw[i - 1], raw[i]) ELSE <<>>)
                 \o DoneItems(raw[i])
    IN  f[Len(raw)]

\* rawPRs.sort((a, b) => a.date.getTime() - b.date.getTime())
RawBefore(a, b) == a.date < b.date

\* The timeline comparator that puts an item before the items of its instant.
TimelineBefore_TiesReversed(a, b) == a.date >= b.date

\* timeline.sort((a, b) => b.date.getTime() - a.date.getTime())
TimelineBefore(a, b) == a.date > b.date

Entries(items) == [i \in 1..Len(items) |-> items[i].entry]

(***************************************************************************)
(* extractPRsFromCurrentPage as one step.                                  *)
(***************************************************************************)
\* The scan never returns when the date loop of some row does not end.
ScanHangs(rows) == \E i \in 1..Len(rows) : ResolveDate(rows[i]).hang

SortedRawPRs(rows) == StableSort(ParseRows(rows), RawBefore)

SortedTimeline(raw) == StableSort(GenerateTimeline(raw), TimelineBefore)

\* The array returned for a page of these rows.
ExtractPRsFromCurrentPage(rows) == Entries(SortedTimeline(SortedRawPRs(rows)))

Scan ==
    /\ scanPc = "idle"
    /\ IF ScanHangs(page)
       THEN /\ scanPc' = "hung"
            /\ UNCHANGED <<rawPRs, timeline>>
       ELSE /\ scanPc' = "done"
            /\ rawPRs' = SortedRawPRs(page)
            /\ timeline' = SortedTimeline(SortedRawPRs(page))
    /\ UNCHANGED <<env, page, siteVars, doc, popupVars, runs>>

(***************************************************************************)
(* The pages and clocks the scan is checked on.                            *)
(***************************************************************************)
Titles == <<"Add dashboard", "Fix login", "Update docs">>

TitleOf(i) == Titles[((i - 1) % Len(Titles)) + 1]

\* bugKeywords.some(...) of line 574 on these titles.
HasBugKeyword(title) == title = "Fix login"

\* Instants an element's datetime can name: two times of day on every day
\* of the current month, and one on the last day of the previous month.
ElementTimes ==
    {HoursPerDay * (d - 1) + h : d \in 1..MonthDays, h \in {3, 15}} \cup {-21}

\* Pages whose rows carry a merge-date element and no date in their text.
ElementPages ==
    UNION {[1..n -> ElementTimes] : n \in 0..MaxRows}

ElementRows(times) ==
    [i \in 1..Len(times) |->
        [title |-> TitleOf(i), bug |-> HasBugKeyword(TitleOf(i)),
         elem |-> <<times[i]>>, text |-> <<>>]]

\* The dated phrases of a row text.  The offsets before a relative phrase
\* play no part in its candidate, so it comes without keyword and gap choice.
Phrases ==
    [gap : {1, 40}, kw : {"merged", "approved", "updated", "none"},
     kind : {"iso"}, val : {0, 4, 6}]
    \cup [gap : {1}, kw : {"none"}, kind : {"days", "hours"}, val : {2}]

Texts == UNION {[1..n -> Phrases] : n \in 1..MaxPhrases}

\* A page of one row with dates in its text.
TextRow(elem, text) ==
    <<[title |-> TitleOf(1), bug |-> HasBugKeyword(TitleOf(1)),
       elem |-> elem, text |-> text]>>

\* The calendars: the weekday of the 1st and the clock change of the zone.
Calendars == [firstDow : 0..6, dst : {"none", "spring", "fall"}]

\* The zone offset, the clock (new Date()) and the merge-date element of
\* the text pages: a zone west and one east of UTC, a clock early and one
\* late in the month, no element or one dated in the previous month.
TextSettings ==
    {[tz |-> -5, now |-> HoursPerDay * 7 + 10, elem |-> <<>>],
     [tz |-> 2, now |-> HoursPerDay * 7 + 10, elem |-> <<>>],
     [tz |-> 2, now |-> HoursPerDay + 10, elem |-> <<>>],
     [tz |-> 2, now |-> HoursPerDay * 7 + 10, elem |-> <<-21>>]}

(***************************************************************************)
(* The tab and the page context (content script).  doc.state is "offsite"  *)
(* (no content script: the tab shows another site), "loading" (navigating: *)
(* no content script yet), "busy" (content script alive, list not          *)
(* rendered or a loader visible), "ready", or "gone" (tab closed).         *)
(* doc.shown is the list page whose rows are in the DOM (0: none),         *)
(* doc.target the list page that the last navigation leads to.             *)
(***************************************************************************)
\* chrome.tabs.sendMessage is answered (else the promise is rejected).
Responds == doc.state \in {"busy", "ready"}

\* checkPRListReady / checkPageReady (lines 888-984).
ListReady == doc.state = "ready" /\ doc.shown >= 1

\* hasNextPage (lines 851-868): an enabled next control is in the DOM.  On
\* a site that loops, the control of the last page stays enabled although
\* a click on it shows no other page.
HasNextControl ==
    doc.shown >= 1 /\ (doc.shown < Len(site.pages) \/ site.loops)

NextTarget ==
    IF doc.shown < Len(site.pages) THEN doc.shown + 1 ELSE doc.shown

\* The answer {prs: ...} of the listener to extractPRs (lines 1020-1024):
\* what the scan returns for the page shown, site.prs.
ExtractResponse ==
    IF doc.shown = 0 THEN <<>>
    ELSE site.prs[doc.shown]

(***************************************************************************)
(* The report (popup.js lines 159-202).  extractedData is the sequence of  *)
(* date groups joined by blank lines; a group is the sequence of its       *)
(* lines; a line is the entry with its date tag, or without it (tag <<>>). *)
(***************************************************************************)
\* The distinct elements in order of last occurrence.
Unique_KeepLast(list) ==
    LET last == {i \in 1..Len(list) : \A j \in (i + 1)..Len(list) : list[j] # list[i]}
    IN  [k \in 1..Cardinality(last) |->
            list[CHOOSE i \in last : Cardinality({j \in last : j <= i}) = k]]

\* The list as it is, duplicates kept.
Unique_KeepAll(list) == list

\* [...new Set(list)]: the distinct elements in order of first occurrence.
Unique(list) ==
    LET first == {i \in 1..Len(list) : \A j \in 1..(i - 1) : list[j] # list[i]}
    IN  [k \in 1..Cardinality(first) |->
            list[CHOOSE i \in first : Cardinality({j \in first : j <= i}) = k]]

\* dateMatch[1]: the text between the parentheses at the start of an entry.
DateTag(e) == <<e.day, e.dow>>

\* A report line that keeps its date tag wherever it stands.
ReportLine_TagKept(e, first) ==
    [tag |-> DateTag(e), type |-> e.type, status |-> e.status, title |-> e.title]

\* Lines 186-194: the first line of a group keeps its date tag, the others
\* lose it.
ReportLine(e, first) ==
    [tag |-> IF first THEN DateTag(e) ELSE <<>>,
     type |-> e.type, status |-> e.status, title |-> e.title]

FormatReport(prs) ==
    LET uniquePRs == Unique(prs)
        dates == Unique([i \in 1..Len(uniquePRs) |-> DateTag(uniquePRs[i])])
        group(k) == SelectSeq(uniquePRs, LAMBDA e : DateTag(e) = dates[k])
    IN  [k \in 1..Len(dates) |->
            [i \in 1..Len(group(k)) |-> ReportLine(group(k)[i], i = 1)]]

(***************************************************************************)
(* The click handler and processAllPullRequests (popup.js lines 20-215).   *)
(* runs[r] is the r-th invocation of the click handler: its position pc,   *)
(* its locals pageCount and hasMorePages, elapsed of the wait it is in,    *)
(* and a record of what it did: the extractPRs requests answered, the      *)
(* entries they returned and the list pages they scanned, its              *)
(* next-page clicks, its navigations to the list URL, whether it hit the   *)
(* page limit, the request of the loop that was rejected, whether a check  *)
(* of a next-page wait was rejected, and how it ended.  The record of an invocation that has      *)
(* ended is kept until the next click takes its place.                     *)
(***************************************************************************)
SafetyPageLimit == 20
BasicMaxWait == 10000
ListMaxWait == 20000
NextPageMaxWait == 15000
FastPhaseEnd == 2000
MediumPhaseEnd == 5000
FastInterval == 200
MediumInterval == 400
SlowInterval == 800

Invocations == 1..MaxInvocations

IdleRun ==
    [pc |-> "idle", pageCount |-> 0, hasMorePages |-> FALSE, elapsed |-> 0,
     scans |-> 0, received |-> 0, pages |-> {}, navs |-> 0, listNavs |-> 0,
     limitHit |-> FALSE, failedAt |-> 0, thrown |-> <<>>, rejected |-> "none", waitRejected |-> FALSE,
     outcome |-> "none"]

InFlight == {r \in Invocations : runs[r].pc \notin {"idle", "ended"}}

\* The text of an exception is the sequence of its words and punctuation
\* marks.  Lines 41, 53 and 63, and the rejections of chrome.tabs.update
\* and chrome.tabs.sendMessage.
NoUUIDError ==
    <<"Could", "not", "retrieve", "user", "UUID", ".", "Please", "make", "sure",
      "you", "are", "logged", "in", "to", "Bitbucket", ".">>

InvalidUUIDError == <<"Invalid", "user", "UUID", "format", "received">>

NotConfiguredError ==
    <<"Extension", "not", "configured", ".", "Please", "set", "your",
      "organization", "and", "project", "in", "the", "extension", "options">>

NoTabError == <<"No", "tab", "with", "id", ":", "1", ".">>

NoReceiverError ==
    <<"Could", "not", "establish", "connection", ".", "Receiving", "end",
      "does", "not", "exist", ".">>

\* error.message.includes(phrase), for a phrase of whole words.
Includes(text, phrase) ==
    \E i \in 0..(Len(text) - Len(phrase)) :
        SubSeq(text, i + 1, i + Len(phrase)) = phrase

\* Lines 81-87: the category of an error, by the first test its text passes.
Category(text) ==
    IF Includes(text, <<"Extension", "not", "configured">>) THEN "config"
    ELSE IF Includes(text, <<"UUID">>) THEN "uuid"
    ELSE IF Includes(text, <<"network">>) \/ Includes(text, <<"fetch">>) THEN "network"
    ELSE "other"

\* The message of the catch block (lines 77-90) for an error whose text
\* mentions the configuration, the UUID, the network, or none of them.
UserMessage(kind) ==
    CASE kind = "config" -> "Extension not configured!"
      [] kind = "uuid" -> "Unable to identify user."
      [] kind = "network" -> "Network error."
      [] OTHER -> "An error occurred during extraction."

\* The catch block without lines 81-87: the generic message for every
\* exception.
Fail_GenericOnly(r, text) ==
    /\ status' = [msg |-> UserMessage("other"), type |-> "error"]
    /\ btnDisabled' = FALSE
    /\ runs' = [runs EXCEPT ![r].pc = "ended", ![r].outcome = Category(text),
                            ![r].thrown = text]
    /\ UNCHANGED <<allPRs, extractedData, resultsShown, copyHidden, doc>>

\* The catch block without line 89.
Fail_StaysDisabled(r, text) ==
    /\ status' = [msg |-> UserMessage(Category(text)), type |-> "error"]
    /\ runs' = [runs EXCEPT ![r].pc = "ended", ![r].outcome = Category(text),
                            ![r].thrown = text]
    /\ UNCHANGED <<btnDisabled, allPRs, extractedData, resultsShown, copyHidden, doc>>

\* Lines 77-90: the catch block of the click handler, for an exception
\* with the given text.
Fail(r, text) ==
    /\ status' = [msg |-> UserMessage(Category(text)), type |-> "error"]
    /\ btnDisabled' = FALSE
    /\ runs' = [runs EXCEPT ![r].pc = "ended", ![r].outcome = Category(text),
                            ![r].thrown = text]
    /\ UNCHANGED <<allPRs, extractedData, resultsShown, copyHidden, doc>>

\* The end of processAllPullRequests without lines 209-211: with nothing
\* accumulated the results and the copy button stay as they were.
Finish_EmptyLeavesResults(r, run, prs) ==
    /\ allPRs' = prs
    /\ IF prs # <<>>
       THEN /\ extractedData' = FormatReport(prs)
            /\ resultsShown' = TRUE
            /\ copyHidden' = FALSE
            /\ status' = [msg |-> "Report generation complete!", type |-> "success"]
       ELSE /\ status' = [msg |-> "No pull requests found for current month",
                          type |-> "success"]
            /\ UNCHANGED <<extractedData, resultsShown, copyHidden>>
    /\ btnDisabled' = FALSE
    /\ runs' = [runs EXCEPT ![r] =
                   [run EXCEPT !.pc = "ended",
                               !.outcome = IF prs # <<>> THEN "report" ELSE "empty"]]

\* Lines 159-214: what processAllPullRequests does once its loop has ended,
\* with run the locals of the invocation and prs the accumulator.
Finish(r, run, prs) ==
    /\ allPRs' = prs
    /\ IF prs # <<>>
       THEN /\ extractedData' = FormatReport(prs)
            /\ resultsShown' = TRUE
            /\ copyHidden' = FALSE
            /\ status' = [msg |-> "Report generation complete!", type |-> "success"]
       ELSE /\ status' = [msg |-> "No pull requests found for current month",
                          type |-> "success"]
            /\ resultsShown' = FALSE
            /\ copyHidden' = TRUE
            /\ UNCHANGED extractedData
    /\ btnDisabled' = FALSE
    /\ runs' = [runs EXCEPT ![r] =
                   [run EXCEPT !.pc = "ended",
                               !.outcome = IF prs # <<>> THEN "report" ELSE "empty"]]

\* The click handler without line 23.
Click_ButtonLeftEnabled(r) ==
    /\ runs[r].pc \in {"idle", "ended"}
    /\ \A q \in Invocations : q < r => q \in InFlight
    /\ ~btnDisabled
    /\ status' = [msg |-> "Getting current user UUID...", type |-> "loading"]
    /\ allPRs' = <<>>
    /\ runs' = [runs EXCEPT ![r] = [IdleRun EXCEPT !.pc = "query"]]
    /\ UNCHANGED <<btnDisabled, extractedData, resultsShown, copyHidden, doc>>

\* The click handler without line 24.
Click_KeepsAccumulator(r) ==
    /\ runs[r].pc \in {"idle", "ended"}
    /\ \A q \in Invocations : q < r => q \in InFlight
    /\ ~btnDisabled
    /\ status' = [msg |-> "Getting current user UUID...", type |-> "loading"]
    /\ btnDisabled' = TRUE
    /\ runs' = [runs EXCEPT ![r] = [IdleRun EXCEPT !.pc = "query"]]
    /\ UNCHANGED <<allPRs, extractedData, resultsShown, copyHidden, doc>>

\* Lines 20-27: a click on the enabled button starts an invocation, which
\* runs up to its first await.
Click(r) ==
    /\ runs[r].pc \in {"idle", "ended"}
    /\ \A q \in Invocations : q < r => q \in InFlight
    /\ ~btnDisabled
    /\ status' = [msg |-> "Getting current user UUID...", type |-> "loading"]
    /\ btnDisabled' = TRUE
    /\ allPRs' = <<>>
    /\ runs' = [runs EXCEPT ![r] = [IdleRun EXCEPT !.pc = "query"]]
    /\ UNCHANGED <<extractedData, resultsShown, copyHidden, doc>>

\* Lines 27-33: the active tab is known; off Bitbucket the tab is sent to
\* the Bitbucket home page.
TabsQuery(r) ==
    /\ runs[r].pc = "query"
    /\ IF doc.state = "gone" THEN Fail(r, NoTabError)
       ELSE IF doc.state = "offsite"
       THEN /\ doc' = [state |-> "loading", shown |-> 0, target |-> 0]
            /\ runs' = [runs EXCEPT ![r].pc = "homeWait", ![r].elapsed = 0]
            /\ UNCHANGED popupVars
       ELSE /\ runs' = [runs EXCEPT ![r].pc = "getUUID"]
            /\ UNCHANGED <<popupVars, doc>>

\* The position of the loop of processAllPullRequests at the top of an
\* iteration (lines 115-122): the status line and the extractPRs request.
EnterIteration(r, run) ==
    /\ status' = [msg |-> "Processing pull requests...", type |-> "loading"]
    /\ runs' = [runs EXCEPT ![r] = [run EXCEPT !.pc = "extract"]]
    /\ UNCHANGED <<btnDisabled, allPRs, extractedData, resultsShown, copyHidden>>

\* The limit test one page late.
ExceedsLimit_OffByOne(pageCount) == pageCount > SafetyPageLimit + 1

\* Line 148.
ExceedsLimit(pageCount) == pageCount > SafetyPageLimit

\* What follows a wait that has resolved.
AfterWait(r) ==
    LET run == runs[r]
    IN  CASE run.pc = "homeWait" ->
               /\ runs' = [runs EXCEPT ![r].pc = "getUUID", ![r].elapsed = 0]
               /\ UNCHANGED popupVars
          [] run.pc = "listWait" ->
               \* line 75, lines 111-112
               EnterIteration(r, [run EXCEPT !.pageCount = 1, !.hasMorePages = TRUE,
                                             !.elapsed = 0])
          [] OTHER ->
               \* lines 142-151
               IF ExceedsLimit(run.pageCount + 1)
               THEN Finish(r, [run EXCEPT !.pageCount = run.pageCount + 1,
                                          !.limitHit = TRUE, !.elapsed = 0], allPRs)
               ELSE EnterIteration(r, [run EXCEPT !.pageCount = run.pageCount + 1,
                                                  !.elapsed = 0])

MaxWaitOf(pc) ==
    CASE pc = "homeWait" -> BasicMaxWait
      [] pc = "listWait" -> ListMaxWait
      [] OTHER -> NextPageMaxWait

\* Lines 284-292.
NextInterval(elapsed) ==
    IF elapsed < FastPhaseEnd THEN FastInterval
    ELSE IF elapsed < MediumPhaseEnd THEN MediumInterval
    ELSE SlowInterval

\* isReady after the check of lines 234-275: a rejected request counts as
\* not ready.
IsReady(pc) ==
    IF pc = "homeWait" THEN Responds ELSE Responds /\ ListReady

\* Date.now() - startTime (line 232) at the check that follows one made
\* at elapsed: a timer fires no sooner than its interval, and the reading
\* is one of the thresholds that elapsed is compared with.
ClockReadings(pc, elapsed) ==
    {e \in {FastPhaseEnd, MediumPhaseEnd, MaxWaitOf(pc)} :
        e >= elapsed + NextInterval(elapsed)}

\* checkContent without the test of lines 277-282: only a successful check
\* resolves the wait.
WaitCheck_ReadyOnly(r) ==
    /\ runs[r].pc \in {"homeWait", "listWait", "nextWait"}
    /\ IF IsReady(runs[r].pc)
       THEN AfterWait(r)
       ELSE /\ \E e \in ClockReadings(runs[r].pc, runs[r].elapsed) :
                  runs' = [runs EXCEPT
                              ![r].elapsed = e,
                              ![r].waitRejected =
                                  @ \/ (runs[r].pc = "nextWait" /\ ~Responds)]
            /\ UNCHANGED popupVars
    /\ UNCHANGED doc

\* One run of checkContent (lines 230-295) of waitForContentReady, with
\* runs[r].elapsed the time elapsed at this run of it.
WaitCheck(r) ==
    /\ runs[r].pc \in {"homeWait", "listWait", "nextWait"}
    /\ IF IsReady(runs[r].pc) \/ runs[r].elapsed >= MaxWaitOf(runs[r].pc)
       THEN AfterWait(r)
       ELSE /\ \E e \in ClockReadings(runs[r].pc, runs[r].elapsed) :
                  runs' = [runs EXCEPT
                              ![r].elapsed = e,
                              ![r].waitRejected =
                                  @ \/ (runs[r].pc = "nextWait" /\ ~Responds)]
            /\ UNCHANGED popupVars
    /\ UNCHANGED doc

\* Lines 35-56: the answer to getUserUUID and its validation.
GetUUID(r) ==
    /\ runs[r].pc = "getUUID"
    /\ IF ~Responds THEN Fail(r, NoReceiverError)
       ELSE IF identity = "none" THEN Fail(r, NoUUIDError)
       ELSE IF identity # "valid" THEN Fail(r, InvalidUUIDError)
       ELSE /\ status' = [msg |-> "Found user UUID. Loading settings...",
                          type |-> "loading"]
            /\ runs' = [runs EXCEPT ![r].pc = "settings"]
            /\ UNCHANGED <<btnDisabled, allPRs, extractedData, resultsShown,
                           copyHidden, doc>>

\* The settings step without the test of line 62.
LoadSettings_Unchecked(r) ==
    /\ runs[r].pc = "settings"
    /\ status' = [msg |-> "Navigating to pull requests...", type |-> "loading"]
    /\ runs' = [runs EXCEPT ![r].pc = "listNav"]
    /\ UNCHANGED <<btnDisabled, allPRs, extractedData, resultsShown,
                   copyHidden, doc>>

\* Lines 58-66: the settings are loaded and checked.
LoadSettings(r) ==
    /\ runs[r].pc = "settings"
    /\ IF ~settings.organization \/ ~settings.project THEN Fail(r, NotConfiguredError)
       ELSE /\ status' = [msg |-> "Navigating to pull requests...", type |-> "loading"]
            /\ runs' = [runs EXCEPT ![r].pc = "listNav"]
            /\ UNCHANGED <<btnDisabled, allPRs, extractedData, resultsShown,
                           copyHidden, doc>>

\* Lines 70-72: the tab is sent to the list of the user's merged PRs.
ListNav(r) ==
    /\ runs[r].pc = "listNav"
    /\ IF doc.state = "gone" THEN Fail(r, NoTabError)
       ELSE /\ doc' = [state |-> "loading", shown |-> 0, target |-> 1]
            /\ runs' = [runs EXCEPT ![r].pc = "listWait", ![r].elapsed = 0,
                                    ![r].listNavs = @ + 1]
            /\ UNCHANGED popupVars

\* A catch block that leaves hasMorePages as it is: the iteration is run
\* again.
LoopCatch_Retry(r, run) ==
    /\ runs' = [runs EXCEPT ![r] = [run EXCEPT !.pc = "extract"]]
    /\ UNCHANGED <<popupVars, doc>>

\* Lines 153-156 and what follows the loop: a rejected request ends the
\* loop, and the accumulated entries are formatted.
LoopCatch(r, run) ==
    /\ Finish(r, [run EXCEPT !.hasMorePages = FALSE], allPRs)
    /\ UNCHANGED doc

\* Lines 119-133: the answer to extractPRs, which is {error: ...} when the
\* scan ended in an exception (content.js 1046-1049).
Extract(r) ==
    /\ runs[r].pc = "extract"
    /\ IF ~Responds THEN LoopCatch(r, [runs[r] EXCEPT !.rejected = "extractPRs"])
       ELSE IF doc.shown \in site.throws
       THEN /\ status' = [msg |-> "Error extracting PRs: Internal error occurred",
                          type |-> "error"]
            /\ runs' = [runs EXCEPT ![r].pc = "hasNext", ![r].scans = @ + 1,
                                    ![r].failedAt = runs[r].pageCount]
            /\ UNCHANGED <<btnDisabled, allPRs, extractedData, resultsShown,
                           copyHidden, doc>>
       ELSE /\ allPRs' = allPRs \o ExtractResponse
            /\ status' = IF ExtractResponse # <<>>
                         THEN [msg |-> "Found PRs on page", type |-> "loading"]
                         ELSE status
            /\ runs' = [runs EXCEPT ![r].pc = "hasNext", ![r].scans = @ + 1,
                                    ![r].received = @ + Len(ExtractResponse),
                                    ![r].pages = @ \cup ({doc.shown} \ {0})]
            /\ UNCHANGED <<btnDisabled, extractedData, resultsShown,
                           copyHidden, doc>>

\* Lines 135-151: the answer to hasNextPage.
HasNext(r) ==
    /\ runs[r].pc = "hasNext"
    /\ IF ~Responds THEN LoopCatch(r, [runs[r] EXCEPT !.rejected = "hasNextPage"])
       ELSE IF HasNextControl
       THEN /\ runs' = [runs EXCEPT ![r].pc = "goNext"]
            /\ UNCHANGED <<popupVars, doc>>
       ELSE /\ Finish(r, [runs[r] EXCEPT !.hasMorePages = FALSE], allPRs)
            /\ UNCHANGED doc

\* Line 140 and goToNextPage (lines 874-881): the next control is clicked;
\* the page it leads to is rendered later, in place with or without a
\* loader, or after a load of the document.
GoNext(r) ==
    /\ runs[r].pc = "goNext"
    /\ IF ~Responds THEN LoopCatch(r, [runs[r] EXCEPT !.rejected = "goToNextPage"])
       ELSE /\ runs' = [runs EXCEPT ![r].pc = "nextWait", ![r].elapsed = 0,
                                    ![r].navs = @ + 1]
            /\ IF HasNextControl
               THEN \/ \E st \in {"ready", "busy"} :
                          doc' = [doc EXCEPT !.target = NextTarget, !.state = st]
                    \/ doc' = [state |-> "loading", shown |-> 0,
                               target |-> NextTarget]
               ELSE UNCHANGED doc
            /\ UNCHANGED popupVars

\* The browser: a navigation commits and the content script starts.
DocLoaded ==
    /\ InFlight # {}
    /\ doc.state = "loading"
    /\ doc' = [doc EXCEPT !.state = "busy"]
    /\ UNCHANGED <<popupVars, runs>>

\* The page: the list page due is rendered.
Render ==
    /\ InFlight # {}
    /\ doc.state = "busy" \/ (doc.state = "ready" /\ doc.target # doc.shown)
    /\ doc' = [doc EXCEPT !.state = "ready", !.shown = doc.target]
    /\ UNCHANGED <<popupVars, runs>>

\* The user closes the tab.
TabGone ==
    /\ InFlight # {}
    /\ doc.state # "gone"
    /\ doc' = [doc EXCEPT !.state = "gone"]
    /\ UNCHANGED <<popupVars, runs>>

(***************************************************************************)
(* The sites and the report runs that are checked.                         *)
(***************************************************************************)
\* The i-th page of a list: the instants of its rows' elements.
ListPage(i) == <<HoursPerDay * 3 * (i - 1) + 3>>

\* A list of one page without rows and the lists of one page or more of
\* one row each, whose next control ends on the last page; and a list of
\* one page whose next control never ends; and a list on whose first page
\* the scan ends in an exception.
Sites ==
    [pages : {<<(<<>>)>>} \cup {[i \in 1..n |-> ListPage(i)] : n \in 1..MaxSitePages},
     loops : {FALSE}, throws : {{}}]
    \cup {[pages |-> <<ListPage(1)>>, loops |-> TRUE, throws |-> {}]}
    \cup {[pages |-> [i \in 1..MaxSitePages |-> ListPage(i)], loops |-> FALSE,
           throws |-> {1}]}

\* A list with what extractPRsFromCurrentPage returns for each of its
\* pages under the calendar of env.
Scanned(s) ==
    [pages |-> s.pages, loops |-> s.loops, throws |-> s.throws,
     prs |-> [i \in 1..Len(s.pages) |->
                 ExtractPRsFromCurrentPage(ElementRows(s.pages[i]))]]

PopupIdle ==
    /\ btnDisabled = FALSE
    /\ allPRs = <<>>
    /\ status = [msg |-> "", type |-> "hidden"]
    /\ extractedData = <<>>
    /\ resultsShown = FALSE
    /\ copyHidden = TRUE
    /\ runs = [r \in Invocations |-> IdleRun]

ScanIdle ==
    /\ page = <<>>
    /\ scanPc = "idle"
    /\ rawPRs = <<>>
    /\ timeline = <<>>

(***************************************************************************)
(* getCurrentUserUUID.  A string is a sequence of characters; null and     *)
(* the empty string, which the code treats alike, are both <<>>.           *)
(***************************************************************************)
UUIDLength == 36

UUIDChars == {"a", "b", "c", "d", "e", "f", "0", "1", "2", "3", "4", "5",
              "6", "7", "8", "9", "-"}

\* /^[a-f0-9-]{36}$/
IsUUIDShaped(s) == Len(s) = UUIDLength /\ \A i \in 1..Len(s) : s[i] \in UUIDChars

\* The four patterns of lines 45-50 on one "uuid" item of a script: each
\* wants the quoted value to be 36 UUID characters; the first, third and
\* fourth also want their surroundings.
PatternMatches(p, item) ==
    /\ IsUUIDShaped(item.value)
    /\ CASE p = 1 -> item.ctx = "user"
         [] p = 2 -> item.ctx \in {"user", "plain", "currentUser"}
         [] p = 3 -> item.ctx = "BB"
         [] p = 4 -> item.ctx = "currentUser"

\* content.match(pattern): the first item of the script the pattern matches.
ScriptMatch(script, p) ==
    LET hits == {i \in 1..Len(script.items) : PatternMatches(p, script.items[i])}
    IN  IF hits = {} THEN <<>>
        ELSE script.items[CHOOSE i \in hits : \A j \in hits : i <= j].value

\* Method 1, lines 37-62: scripts in document order, foreign ones skipped,
\* the patterns in order within a script.
FromScripts(d) ==
    LET ok == {x \in (1..Len(d.scripts)) \X (1..4) :
                  /\ ~d.scripts[x[1]].foreign
                  /\ ScriptMatch(d.scripts[x[1]], x[2]) # <<>>}
    IN  IF ok = {} THEN <<>>
        ELSE LET x == CHOOSE x \in ok : \A y \in ok :
                          x[1] < y[1] \/ (x[1] = y[1] /\ x[2] <= y[2])
             IN  ScriptMatch(d.scripts[x[1]], x[2])

\* Line 68: data-user-uuid, or data-current-user-uuid when that is absent.
AttributeOf(el) == IF el.user # <<>> THEN el.user ELSE el.current

\* Method 2, lines 64-73.
FromAttributes(d) ==
    LET ok == {i \in 1..Len(d.attrs) : IsUUIDShaped(AttributeOf(d.attrs[i]))}
    IN  IF ok = {} THEN <<>>
        ELSE AttributeOf(d.attrs[CHOOSE i \in ok : \A j \in ok : i <= j])

\* Line 81 on the part of an href after /users/ or /profile/: the pattern
\* is not anchored at its end, so it captures the first 36 characters.
LinkMatch(h) ==
    IF Len(h) >= UUIDLength /\ \A i \in 1..UUIDLength : h[i] \in UUIDChars
    THEN SubSeq(h, 1, UUIDLength) ELSE <<>>

\* Method 3, lines 75-86.
FromLinks(d) ==
    LET ok == {i \in 1..Len(d.links) : LinkMatch(d.links[i]) # <<>>}
    IN  IF ok = {} THEN <<>>
        ELSE LinkMatch(d.links[CHOOSE i \in ok : \A j \in ok : i <= j])

\* Method 4, lines 88-96: window.BB.user.uuid.
FromGlobal(d) == IF IsUUIDShaped(d.global) THEN d.global ELSE <<>>

\* Method 5, lines 98-107.
FromMetas(d) ==
    LET ok == {i \in 1..Len(d.metas) : IsUUIDShaped(d.metas[i])}
    IN  IF ok = {} THEN <<>>
        ELSE d.metas[CHOOSE i \in ok : \A j \in ok : i <= j]

\* The methods tried from the last to the first.
GetCurrentUserUUID_LastFirst(d) ==
    IF FromMetas(d) # <<>> THEN FromMetas(d)
    ELSE IF FromGlobal(d) # <<>> THEN FromGlobal(d)
    ELSE IF FromLinks(d) # <<>> THEN FromLinks(d)
    ELSE IF FromAttributes(d) # <<>> THEN FromAttributes(d)
    ELSE FromScripts(d)

\* Lines 32-115.
GetCurrentUserUUID(d) ==
    IF FromScripts(d) # <<>> THEN FromScripts(d)
    ELSE IF FromAttributes(d) # <<>> THEN FromAttributes(d)
    ELSE IF FromLinks(d) # <<>> THEN FromLinks(d)
    ELSE IF FromGlobal(d) # <<>> THEN FromGlobal(d)
    ELSE FromMetas(d)

\* The listener's case getUserUUID (lines 1015-1019).
AnswerUserUUID ==
    /\ ~uuidResponse.sent
    /\ uuidResponse' = [sent |-> TRUE, uuid |-> GetCurrentUserUUID(dom)]
    /\ UNCHANGED <<scanVars, site, identity, settings, dom, clipboard, sanitized, listener,
                   doc, popupVars, runs>>

(***************************************************************************)
(* sanitizeText (content.js lines 11-24).  A string is the sequence of its *)
(* characters; the control characters are written by their names.          *)
(***************************************************************************)
MaxPieces == 3          \* pieces an argument of sanitizeText is made of

MaxTextLength == 500

ControlChars == {"NUL", "LF", "DEL"}

NotRemoved(c) == c # ""

\* The string s without the characters at the positions in gone.
Without(s, gone) ==
    SelectSeq([i \in 1..Len(s) |-> IF i \in gone THEN "" ELSE s[i]], NotRemoved)

\* Line 18, replace(/<[^>]*>/g, ''): a match runs from a < to the first >
\* after it, so a character goes if a < stands at or before it with no >
\* in between and a > stands at or after it.
RemoveTags(s) ==
    Without(s, {i \in 1..Len(s) :
                   /\ \E j \in i..Len(s) : s[j] = ">"
                   /\ \E k \in 1..i : /\ s[k] = "<"
                                       /\ \A m \in k..(i - 1) : s[m] # ">"})

\* The i flag, for the letters that occur.
LowerCase(c) ==
    CASE c = "J" -> "j" [] c = "A" -> "a" [] c = "V" -> "v" [] c = "D" -> "d"
      [] OTHER -> c

\* The word stands in s at position p, in any letter case.
WordAt(s, word, p) ==
    /\ p >= 1
    /\ p + Len(word) - 1 <= Len(s)
    /\ \A k \in 1..Len(word) : LowerCase(s[p + k - 1]) = word[k]

\* Lines 19 and 20, replace(/word/gi, ''), for a word no two occurrences
\* of which overlap: every occurrence in s goes.
RemoveWord(s, word) ==
    Without(s, {i \in 1..Len(s) :
                   \E p \in (i - Len(word) + 1)..i : WordAt(s, word, p)})

JavascriptScheme == <<"j", "a", "v", "a", "s", "c", "r", "i", "p", "t", ":">>

DataScheme == <<"d", "a", "t", "a", ":">>

\* Line 21.
RemoveControl(s) == Without(s, {i \in 1..Len(s) : s[i] \in ControlChars})

\* Line 22; of the white space only the blank is left after line 21.
Trim(s) ==
    Without(s, {i \in 1..Len(s) :
                   \/ \A k \in 1..i : s[k] = " "
                   \/ \A k \in i..Len(s) : s[k] = " "})

\* Line 23.
Truncate(s) == SubSeq(s, 1, IF Len(s) < MaxTextLength THEN Len(s) ELSE MaxTextLength)

\* Lines 11-24.
SanitizeText(text) ==
    IF ~text.isString \/ text.chars = <<>> THEN <<>>
    ELSE Truncate(Trim(RemoveControl(
             RemoveWord(RemoveWord(RemoveTags(text.chars), JavascriptScheme),
                        DataScheme))))

\* The pieces the arguments are made of.
Pieces ==
    {<<"j", "a", "v", "a">>, <<"J", "a", "V", "a">>, <<"s", "c", "r", "i", "p", "t", ":">>, <<"d", "a">>, <<"t", "a", ":">>, <<"d", "a", "t", "a", ":">>, <<"<">>, <<">">>, <<"b">>, <<" ">>,
     <<"NUL">>}

RECURSIVE Joined(_)
Joined(ps) == IF ps = <<>> THEN <<>> ELSE Head(ps) \o Joined(Tail(ps))

\* Strings of up to MaxPieces pieces, a string longer than the limit, and
\* a value that is not a string.
SanitizeArguments ==
    {[isString |-> TRUE, chars |-> Joined(ps)] :
        ps \in UNION {[1..n -> Pieces] : n \in 0..MaxPieces}}
    \cup {[isString |-> TRUE, chars |-> [i \in 1..(MaxTextLength + 1) |-> "b"]],
          [isString |-> FALSE, chars |-> <<"b">>]}

NotSanitized == [text |-> [isString |-> TRUE, chars |-> <<>>], done |-> FALSE,
                 result |-> <<>>]

\* A call of sanitizeText.
Sanitize ==
    /\ ~sanitized.done
    /\ sanitized' = [sanitized EXCEPT !.done = TRUE,
                                      !.result = SanitizeText(sanitized.text)]
    /\ UNCHANGED <<scanVars, site, identity, settings, dom, uuidResponse, listener, clipboard,
                   doc, popupVars, runs>>

(***************************************************************************)
(* The listener of the content script (content.js lines 992-1052).         *)
(* listener.request is the message: present (not null or undefined), its   *)
(* action a string or not, and the text of the action.  listener.sender    *)
(* is sender.id ("" when it is missing), listener.fails tells that the     *)
(* extractor operation throws, listener.next that an enabled next control  *)
(* is in the document.  What the listener did: the extractor operations it *)
(* called, its clicks on the next control, the responses it sent, and the  *)
(* value it returned ("none" while it has not returned).                   *)
(***************************************************************************)
RuntimeId == "thisextension"

\* Line 1006.
AllowedActions ==
    {"getUserUUID", "extractPRs", "hasNextPage", "goToNextPage", "checkPRListReady",
     "checkPageReady"}

\* The operation of window.bitbucketPRExtractor that the switch calls for
\* an action, and the key of the response it sends (lines 1014-1045).
Operation(action) ==
    CASE action = "getUserUUID" -> "getCurrentUserUUID"
      [] action = "extractPRs" -> "extractPRsFromCurrentPage"
      [] action = "hasNextPage" -> "hasNextPage"
      [] action = "goToNextPage" -> "goToNextPage"
      [] action = "checkPRListReady" -> "checkPRListReady"
      [] action = "checkPageReady" -> "checkPageReady"

ResponseKey(action) ==
    CASE action = "getUserUUID" -> "uuid"
      [] action = "extractPRs" -> "prs"
      [] action = "hasNextPage" -> "hasNext"
      [] action = "goToNextPage" -> "navigated"
      [] action = "checkPRListReady" -> "ready"
      [] action = "checkPageReady" -> "ready"

NoMessage ==
    [state |-> "none",
     request |-> [present |-> FALSE, isString |-> FALSE, action |-> ""],
     sender |-> "", fails |-> FALSE, next |-> FALSE,
     called |-> <<>>, clicks |-> 0, responses |-> <<>>, returned |-> "none"]

\* The three checks of lines 994-1010.
Refused(request, sender) ==
    \/ ~request.present \/ ~request.isString
    \/ sender = "" \/ sender # RuntimeId
    \/ request.action \notin AllowedActions

\* The listener called with the message.  The scan of extractPRs is the
\* scan of the page: when it does not return, neither does the listener.
OnMessage ==
    /\ listener.state = "pending"
    /\ LET action == listener.request.action
       IN  IF Refused(listener.request, listener.sender)
           THEN /\ listener' = [listener EXCEPT !.state = "returned",
                                                !.returned = "false"]
                /\ UNCHANGED <<scanPc, rawPRs, timeline>>
           ELSE IF listener.fails
           THEN /\ listener' = [listener EXCEPT !.state = "returned",
                                                !.called = <<Operation(action)>>,
                                                !.responses = <<"error">>,
                                                !.returned = "true"]
                /\ UNCHANGED <<scanPc, rawPRs, timeline>>
           ELSE IF action = "extractPRs" /\ ScanHangs(page)
           THEN /\ listener' = [listener EXCEPT !.state = "running",
                                                !.called = <<Operation(action)>>]
                /\ scanPc' = "hung"
                /\ UNCHANGED <<rawPRs, timeline>>
           ELSE /\ listener' = [listener EXCEPT
                        !.state = "returned",
                        !.called = <<Operation(action)>>,
                        !.clicks = IF action = "goToNextPage" /\ listener.next
                                   THEN 1 ELSE 0,
                        !.responses = <<ResponseKey(action)>>,
                        !.returned = "true"]
                /\ IF action = "extractPRs"
                   THEN /\ scanPc' = "done"
                        /\ rawPRs' = SortedRawPRs(page)
                        /\ timeline' = SortedTimeline(SortedRawPRs(page))
                   ELSE UNCHANGED <<scanPc, rawPRs, timeline>>
    /\ UNCHANGED <<env, page, site, identity, settings, dom, uuidResponse, clipboard,
                   sanitized, doc, popupVars, runs>>

(***************************************************************************)
(* The copy button (popup.js lines 96-103).                                *)
(***************************************************************************)
\* Nothing written, no write pending, no timer set.
NoCopy == [write |-> "none", data |-> <<>>, text |-> <<>>, timer |-> FALSE]

\* Line 97: a click on the visible copy button calls writeText with the
\* report as it is then.
CopyClick ==
    /\ ~copyHidden
    /\ clipboard.write # "pending"
    /\ clipboard' = [clipboard EXCEPT !.write = "pending", !.data = extractedData]
    /\ UNCHANGED <<scanVars, site, identity, settings, dom, uuidResponse, sanitized, listener, doc,
                   popupVars, runs>>

\* Lines 97-102: the write succeeds and the then-callback runs.
CopyResolved ==
    /\ clipboard.write = "pending"
    /\ clipboard' = [clipboard EXCEPT !.write = "done", !.text = clipboard.data,
                                      !.timer = TRUE]
    /\ status' = [msg |-> "Copied to clipboard!", type |-> "success"]
    /\ UNCHANGED <<scanVars, site, identity, settings, dom, uuidResponse, sanitized, listener, doc,
                   btnDisabled, allPRs, extractedData, resultsShown, copyHidden, runs>>

\* The write fails: the promise of line 97 has no rejection handler.
CopyRejected ==
    /\ clipboard.write = "pending"
    /\ clipboard' = [clipboard EXCEPT !.write = "failed"]
    /\ UNCHANGED <<scanVars, site, identity, settings, dom, uuidResponse, sanitized, listener, doc,
                   popupVars, runs>>

\* Lines 99-101 and 316-318: two seconds later the status is hidden.
HideStatus ==
    /\ clipboard.timer
    /\ clipboard' = [clipboard EXCEPT !.timer = FALSE]
    /\ status' = [status EXCEPT !.type = "hidden"]
    /\ UNCHANGED <<scanVars, site, identity, settings, dom, uuidResponse, sanitized, listener, doc,
                   btnDisabled, allPRs, extractedData, resultsShown, copyHidden, runs>>

\* Documents: a string of 36 times one character, and strings that are
\* too short, too long, or in capitals.
Repeat(c, n) == [i \in 1..n |-> c]

ScriptChoices ==
    {<<>>} \cup
    {<<[foreign |-> f, items |-> <<[ctx |-> c, value |-> v]>>]>> :
        f \in BOOLEAN, c \in {"plain", "user"},
        v \in {Repeat("1", UUIDLength), Repeat("1", UUIDLength - 1)}} \cup
    {<<[foreign |-> FALSE,
        items |-> <<[ctx |-> "plain", value |-> Repeat("0", UUIDLength)],
                    [ctx |-> "user", value |-> Repeat("1", UUIDLength)]>>]>>}

AttributeChoices ==
    {<<>>} \cup
    {<<[user |-> a, current |-> b]>> :
        a, b \in {<<>>, Repeat("2", UUIDLength), Repeat("A", UUIDLength)}}

LinkChoices ==
    {<<>>} \cup
    {<<h>> : h \in {Repeat("3", UUIDLength), Repeat("3", UUIDLength + 4),
                    Repeat("3", UUIDLength - 1)}}

GlobalChoices == {<<>>, Repeat("4", UUIDLength), Repeat("A", UUIDLength)}

MetaChoices ==
    {<<>>, <<Repeat("5", UUIDLength)>>, <<Repeat("-", UUIDLength + 1)>>,
     <<Repeat("5", UUIDLength - 1), Repeat("-", UUIDLength)>>}

Documents ==
    [scripts : ScriptChoices, attrs : AttributeChoices, links : LinkChoices,
     global : GlobalChoices, metas : MetaChoices]

\* No document tracked and getUserUUID not answered.
IdentityIdle ==
    /\ dom = [scripts |-> <<>>, attrs |-> <<>>, links |-> <<>>, global |-> <<>>,
              metas |-> <<>>]
    /\ uuidResponse = [sent |-> FALSE, uuid |-> <<>>]
    /\ clipboard = NoCopy
    /\ listener = NoMessage
    /\ sanitized = NotSanitized


\* The scan alone: no report run, a tab on a list of one empty page.
NoSite ==
    /\ site = [pages |-> <<(<<>>)>>, loops |-> FALSE, throws |-> {},
               prs |-> <<(<<>>)>>]
    /\ identity = "valid"
    /\ settings = [organization |-> TRUE, project |-> TRUE]
    /\ IdentityIdle
    /\ doc = [state |-> "ready", shown |-> 0, target |-> 0]

\* Pages dated by elements, under every calendar.
ScanInit ==
    /\ scanPc = "idle"
    /\ rawPRs = <<>>
    /\ timeline = <<>>
    /\ PopupIdle
    /\ NoSite
    /\ \E cal \in Calendars, times \in ElementPages :
            /\ env = [firstDow |-> cal.firstDow, dst |-> cal.dst,
                      tz |-> 0, now |-> HoursPerDay * 7 + 10]
            /\ page = ElementRows(times)

\* Pages of one row dated by its text.
TextInit ==
    /\ scanPc = "idle"
    /\ rawPRs = <<>>
    /\ timeline = <<>>
    /\ PopupIdle
    /\ NoSite
    /\ \E set \in TextSettings, text \in Texts :
            /\ env = [firstDow |-> 5, dst |-> "none", tz |-> set.tz, now |-> set.now]
            /\ page = TextRow(set.elem, text)

ScanNext == Scan

SpecScan == ScanInit /\ [][ScanNext]_vars

SpecText == TextInit /\ [][ScanNext]_vars

\* The entries a formatted list is made of: in-progress and done entries
\* of two titles on two days.
EntryChoices ==
    [day : {4, 5}, dow : {1, 2}, type : {"F"}, status : {"P", "D"},
     title : {Titles[1], Titles[2]}]

EntryLists ==
    UNION {[1..n -> {e \in EntryChoices : e.dow = e.day - 3}] : n \in 0..MaxEntries}

\* A run at the end of its loop, on the last page of a list, with a list
\* of entries accumulated.
ReportInit ==
    /\ env = [firstDow |-> 5, dst |-> "none", tz |-> 0, now |-> HoursPerDay * 7 + 10]
    /\ ScanIdle
    /\ site = Scanned([pages |-> <<ListPage(1)>>, loops |-> FALSE, throws |-> {}])
    /\ identity = "valid"
    /\ settings = [organization |-> TRUE, project |-> TRUE]
    /\ IdentityIdle
    /\ doc = [state |-> "ready", shown |-> 1, target |-> 1]
    /\ btnDisabled = TRUE
    /\ allPRs \in EntryLists
    /\ status = [msg |-> "Processing pull requests...", type |-> "loading"]
    /\ extractedData = <<>>
    /\ resultsShown = FALSE
    /\ copyHidden = TRUE
    /\ runs = [r \in Invocations |->
                  IF r = 1
                  THEN [IdleRun EXCEPT !.pc = "hasNext", !.pageCount = 1,
                                       !.hasMorePages = TRUE, !.scans = 1,
                                       !.received = Len(allPRs), !.pages = {1},
                                       !.listNavs = 1]
                  ELSE IdleRun]

ReportNext == \E r \in Invocations : HasNext(r) /\ UNCHANGED <<scanVars, siteVars>>

SpecReport == ReportInit /\ [][ReportNext]_vars

\* The end of a run and the copies of its report.
CopyNext == ReportNext \/ CopyClick \/ CopyResolved \/ CopyRejected \/ HideStatus

SpecCopy == ReportInit /\ [][CopyNext]_vars

\* The messages: no request, a request whose action is not a string (also
\* one that reads like an allowed action), and requests with the allowed
\* actions and with other strings.
OtherActions == {"", "clickNext", "extractprs", "toString"}

Requests ==
    {[present |-> FALSE, isString |-> FALSE, action |-> ""],
     [present |-> TRUE, isString |-> FALSE, action |-> ""],
     [present |-> TRUE, isString |-> FALSE, action |-> "goToNextPage"]}
    \cup {[present |-> TRUE, isString |-> TRUE, action |-> a] :
              a \in AllowedActions \cup OtherActions}

Senders == {RuntimeId, "otherextension", ""}

\* Any message for the listener, on a page of one row with one date phrase
\* in its text.
ListenerInit ==
    /\ env = [firstDow |-> 5, dst |-> "none", tz |-> 2, now |-> HoursPerDay * 7 + 10]
    /\ scanPc = "idle"
    /\ rawPRs = <<>>
    /\ timeline = <<>>
    /\ PopupIdle
    /\ site = [pages |-> <<(<<>>)>>, loops |-> FALSE, throws |-> {},
               prs |-> <<(<<>>)>>]
    /\ identity = "valid"
    /\ settings = [organization |-> TRUE, project |-> TRUE]
    /\ doc = [state |-> "ready", shown |-> 0, target |-> 0]
    /\ dom = [scripts |-> <<>>, attrs |-> <<>>, links |-> <<>>, global |-> <<>>,
              metas |-> <<>>]
    /\ uuidResponse = [sent |-> FALSE, uuid |-> <<>>]
    /\ clipboard = NoCopy
    /\ sanitized = NotSanitized
    /\ \E p \in Phrases : page = TextRow(<<>>, <<p>>)
    /\ \E q \in Requests, s \in Senders, f \in BOOLEAN, n \in BOOLEAN :
          listener = [NoMessage EXCEPT !.state = "pending", !.request = q,
                                       !.sender = s, !.fails = f, !.next = n]

ListenerNext == OnMessage

SpecListener == ListenerInit /\ [][ListenerNext]_vars

\* Any argument, before sanitizeText is called with it.
SanitizeInit ==
    /\ env = [firstDow |-> 5, dst |-> "none", tz |-> 0, now |-> HoursPerDay * 7 + 10]
    /\ ScanIdle
    /\ PopupIdle
    /\ site = [pages |-> <<(<<>>)>>, loops |-> FALSE, throws |-> {},
               prs |-> <<(<<>>)>>]
    /\ identity = "valid"
    /\ settings = [organization |-> TRUE, project |-> TRUE]
    /\ doc = [state |-> "ready", shown |-> 0, target |-> 0]
    /\ dom = [scripts |-> <<>>, attrs |-> <<>>, links |-> <<>>, global |-> <<>>,
              metas |-> <<>>]
    /\ uuidResponse = [sent |-> FALSE, uuid |-> <<>>]
    /\ clipboard = NoCopy
    /\ listener = NoMessage
    /\ \E t \in SanitizeArguments :
          sanitized = [text |-> t, done |-> FALSE, result |-> <<>>]

SanitizeNext == Sanitize

SpecSanitize == SanitizeInit /\ [][SanitizeNext]_vars

\* Any document, before the popup asks for the user's uuid.
UUIDInit ==
    /\ env = [firstDow |-> 5, dst |-> "none", tz |-> 0, now |-> HoursPerDay * 7 + 10]
    /\ ScanIdle
    /\ PopupIdle
    /\ site = [pages |-> <<(<<>>)>>, loops |-> FALSE, throws |-> {},
               prs |-> <<(<<>>)>>]
    /\ identity = "valid"
    /\ settings = [organization |-> TRUE, project |-> TRUE]
    /\ doc = [state |-> "ready", shown |-> 0, target |-> 0]
    /\ dom \in Documents
    /\ uuidResponse = [sent |-> FALSE, uuid |-> <<>>]
    /\ clipboard = NoCopy
    /\ listener = NoMessage
    /\ sanitized = NotSanitized

UUIDNext == AnswerUserUUID

SpecUUID == UUIDInit /\ [][UUIDNext]_vars

Init ==
    /\ env = [firstDow |-> 5, dst |-> "none", tz |-> 0, now |-> HoursPerDay * 7 + 10]
    /\ ScanIdle
    /\ PopupIdle
    /\ site \in {Scanned(s) : s \in Sites}
    /\ identity \in {"none", "invalid", "valid"}
    /\ IdentityIdle
    /\ settings \in [organization : BOOLEAN, project : BOOLEAN]
    /\ doc \in [state : {"offsite", "ready"}, shown : {0}, target : {0}]

Next ==
    \/ \E r \in Invocations :
          /\ \/ Click(r) \/ TabsQuery(r) \/ WaitCheck(r) \/ GetUUID(r)
             \/ LoadSettings(r) \/ ListNav(r) \/ Extract(r) \/ HasNext(r)
             \/ GoNext(r)
          /\ UNCHANGED <<scanVars, siteVars>>
    \/ (DocLoaded \/ Render \/ TabGone) /\ UNCHANGED <<scanVars, siteVars>>

Spec == Init /\ [][Next]_vars

\* The step of invocation r that is due: the continuation of its pending
\* await, or the next run of checkContent.
RunStep(r) ==
    /\ \/ TabsQuery(r) \/ WaitCheck(r) \/ GetUUID(r) \/ LoadSettings(r)
       \/ ListNav(r) \/ Extract(r) \/ HasNext(r) \/ GoNext(r)
    /\ UNCHANGED <<scanVars, siteVars>>

\* Every request is answered or rejected and every timer fires: the step
\* that is due is taken in the end.
FairSpec == Spec /\ \A r \in Invocations : WF_vars(RunStep(r))

(***************************************************************************)
(* Properties of the page scan.                                            *)
(***************************************************************************)
Range(s) == {s[i] : i \in 1..Len(s)}

Count(s, Test(_)) == Cardinality({i \in 1..Len(s) : Test(s[i])})

Weekday(d) == ~IsWeekend(DayOfWeek(d))

\* C1: no entry of the timeline a page scan returns, in-progress or done,
\* is dated on a Saturday or a Sunday.
C1_NoWeekendEntry ==
    scanPc = "done" =>
        \A e \in Range(Entries(timeline)) : Weekday(e.day)

\* A scan whose timeline has entries on both sides of a weekend day.
C1_Witness ==
    /\ scanPc = "done"
    /\ \E a, b \in Range(Entries(timeline)) :
          /\ a.status = "P"
          /\ b.status = "D"
          /\ \E d \in 1..MonthDays : a.day < d /\ d < b.day /\ ~Weekday(d)

\* C9 (as claimed): with r the earliest record, every weekday d with
\* 1 <= d < day of r has exactly one in-progress entry, which carries r's
\* type and title, and no other day before r's has an in-progress entry.
C9_MonthStartProgress ==
    (scanPc = "done" /\ rawPRs # <<>>) =>
        LET r == rawPRs[1]
        IN  \A d \in 1..MonthDays :
                d < DateOf(r.date) =>
                    /\ Count(timeline, LAMBDA it : it.entry.status = "P" /\ it.entry.day = d)
                           = (IF Weekday(d) THEN 1 ELSE 0)
                    /\ \A it \in Range(timeline) :
                           (it.entry.status = "P" /\ it.entry.day = d) =>
                               (it.entry.type = r.type /\ it.entry.title = r.title)

\* C10 (as claimed): for consecutive records p, c every weekday strictly
\* between their days has exactly one in-progress entry, which carries c's
\* type and title; weekend days between them have none.
C10_GapProgress ==
    scanPc = "done" =>
        \A i \in 2..Len(rawPRs) :
            LET p == rawPRs[i - 1]
                c == rawPRs[i]
            IN  \A d \in 1..MonthDays :
                    (DateOf(p.date) < d /\ d < DateOf(c.date)) =>
                        /\ Count(timeline, LAMBDA it : it.entry.status = "P" /\ it.entry.day = d)
                               = (IF Weekday(d) THEN 1 ELSE 0)
                        /\ \A it \in Range(timeline) :
                               (it.entry.status = "P" /\ it.entry.day = d) =>
                                   (it.entry.type = c.type /\ it.entry.title = c.title)

\* C6: every record a page scan produces is dated in the current month,
\* and a row none of whose dates (element or text) lies in the current
\* month gives no record and no timeline entry.
NoDateInMonth(row) ==
    /\ \A c \in Range(AllDatesInText(row.text)) : ~InCurrentMonth(c.date)
    /\ row.elem # <<>> => ~InCurrentMonth(row.elem[1])

C6_CurrentMonthOnly ==
    scanPc = "done" =>
        /\ \A r \in Range(rawPRs) : InCurrentMonth(r.date)
        /\ (\A i \in 1..Len(page) : NoDateInMonth(page[i])) =>
               (rawPRs = <<>> /\ timeline = <<>>)

\* A scanned row whose only date is "merged <last day of the previous
\* month>", which the overall fallback of lines 443-453 resolves.
C6_Witness ==
    /\ scanPc = "done"
    /\ Len(page) = 1
    /\ page[1].elem = <<>>
    /\ Len(page[1].text) = 1
    /\ page[1].text[1].kw = "merged"
    /\ page[1].text[1].kind = "iso"
    /\ ~InCurrentMonth(ParseISO(page[1].text[1].val))
    /\ SelectedCandidate(page[1].text) # <<>>
    /\ rawPRs = <<>>

\* c is a best candidate among cs: highest priority, then relative before
\* absolute, then the later date.
BestAmong(c, cs) ==
    \A o \in cs :
        /\ o.priority <= c.priority
        /\ (o.priority = c.priority /\ o.isRelative) => c.isRelative
        /\ (o.priority = c.priority /\ o.isRelative = c.isRelative) => o.date <= c.date

\* C7: when the date of a row is taken from its text, the row is dated by
\* a best candidate among the text's candidates of the current month.
C7_BestCandidateSelected ==
    (scanPc = "done" /\ page[1].elem = <<>>
        /\ CurrentMonthDates(page[1].text) # <<>>) =>
        /\ Len(rawPRs) = 1
        /\ \E c \in Range(CurrentMonthDates(page[1].text)) :
               /\ rawPRs[1].date = c.date
               /\ BestAmong(c, Range(CurrentMonthDates(page[1].text)))

\* A scanned row with candidates of different priority in the current
\* month, and one dated later than the selected one.
C7_Witness ==
    /\ scanPc = "done"
    /\ page[1].elem = <<>>
    /\ Len(rawPRs) = 1
    /\ \E a, b \in Range(CurrentMonthDates(page[1].text)) :
          /\ a.priority < b.priority
          /\ a.date > b.date
          /\ rawPRs[1].date = b.date

\* The indices of the ISO dates of the text directly preceded by kw.
DatesAfter(text, kw) ==
    {i \in 1..Len(text) : text[i].kind = "iso" /\ text[i].kw = kw}

\* C8 (as claimed): a row whose text has a date directly preceded by
\* "merged" and one directly preceded by "approved", both in the current
\* month, is dated by a date preceded by "merged".
C8_MergedBeatsApproved ==
    (scanPc = "done" /\ page[1].elem = <<>>
        /\ \E i \in DatesAfter(page[1].text, "merged") :
               InCurrentMonth(ParseISO(page[1].text[i].val))
        /\ \E j \in DatesAfter(page[1].text, "approved") :
               InCurrentMonth(ParseISO(page[1].text[j].val))) =>
        /\ Len(rawPRs) = 1
        /\ \E i \in DatesAfter(page[1].text, "merged") :
               rawPRs[1].date = ParseISO(page[1].text[i].val)

(***************************************************************************)
(* Properties of a report run.                                             *)
(***************************************************************************)
\* The report shows entry e: a line with its type, status and title in the
\* group of its date.
InReport(e) ==
    \E g \in Range(extractedData) :
        /\ g[1].tag = DateTag(e)
        /\ \E i \in 1..Len(g) :
              g[i].type = e.type /\ g[i].status = e.status /\ g[i].title = e.title

\* No entry is shown twice in the report.
NoDuplicateLines ==
    /\ \A g \in Range(extractedData) :
          \A i, j \in 1..Len(g) :
              (i # j) => [g[i] EXCEPT !.tag = <<>>] # [g[j] EXCEPT !.tag = <<>>]
    /\ \A i, j \in 1..Len(extractedData) :
          (i # j) => extractedData[i][1].tag # extractedData[j][1].tag

\* The accumulator holds what the scans of run r returned, and the report
\* shows each of its entries once.
AccumulatedReported(r) ==
    /\ Len(allPRs) = runs[r].received
    /\ allPRs # <<>> =>
          /\ resultsShown
          /\ ~copyHidden
          /\ \A e \in Range(allPRs) : InReport(e)
          /\ NoDuplicateLines

\* C2: a run of processAllPullRequests has at most 20 extractPRs requests
\* answered; a run stopped by the page limit has scanned 20 pages, has
\* ended, and the entries of its 20 scans are in the report.
C2_AtMostTwentyScans ==
    \A r \in Invocations :
        /\ runs[r].scans <= 20
        /\ runs[r].limitHit =>
              /\ runs[r].pc = "ended"
              /\ runs[r].scans = 20
              /\ AccumulatedReported(r)

\* A run on a list whose next control never ends, stopped by the limit
\* with entries in the report.
C2_Witness ==
    \E r \in Invocations :
        /\ site.loops
        /\ runs[r].limitHit
        /\ runs[r].scans = 20
        /\ allPRs # <<>>
        /\ resultsShown

\* C3 (as claimed): a run one of whose requests of the loop was rejected,
\* a check of the next-page wait included, has ended.
C3_AnyRejectionEndsLoop ==
    \A r \in Invocations :
        (runs[r].rejected # "none" \/ runs[r].waitRejected) => runs[r].pc = "ended"

\* C3 (amended): a run whose extractPRs, hasNextPage or goToNextPage
\* request was rejected has ended with that request as its last, without
\* an error, and the entries accumulated before it are in the report, each
\* once.
C3_RejectionEndsLoop ==
    \A r \in Invocations :
        runs[r].rejected # "none" =>
            /\ runs[r].pc = "ended"
            /\ runs[r].outcome \in {"report", "empty"}
            /\ ~btnDisabled
            /\ AccumulatedReported(r)

\* A run that scanned two pages, then had its next-page query rejected and
\* has the entries of the pages in the report.
C3_Witness ==
    \E r \in Invocations :
        /\ runs[r].rejected = "hasNextPage"
        /\ runs[r].scans = 2
        /\ runs[r].navs = 1
        /\ runs[r].received > 0
        /\ runs[r].outcome = "report"
        /\ resultsShown

\* C4: never more than one invocation of the click handler is in flight,
\* and the button is disabled exactly while one is.
C4_OneRunInFlight ==
    /\ Cardinality(InFlight) <= 1
    /\ btnDisabled <=> (InFlight # {})

\* A run in flight, past its first await, started by a click after an
\* earlier run had shown its report.
C4_Witness ==
    \E r \in Invocations :
        /\ runs[r].pc = "extract"
        /\ btnDisabled
        /\ allPRs = <<>>
        /\ extractedData # <<>>

BadIdentityOrConfig ==
    identity # "valid" \/ ~settings.organization \/ ~settings.project

\* C5: when the user id is missing or malformed, or the organization or
\* the project is not configured, no run navigates to the list URL or
\* requests a scan, and a run that has ended has ended with an error.
C5_FailFastBeforeNavigation ==
    BadIdentityOrConfig =>
        \A r \in Invocations :
            /\ runs[r].listNavs = 0
            /\ runs[r].scans = 0
            /\ runs[r].pc \in {"idle", "query", "homeWait", "getUUID", "settings", "ended"}
            /\ runs[r].pc = "ended" =>
                  /\ runs[r].outcome \in {"uuid", "config", "other"}
                  /\ runs[r].outcome = "config" => identity = "valid"
                  /\ status.type = "error"
                  /\ ~btnDisabled
            /\ doc.target = 0

\* A run with a valid user id and no project configured that has ended
\* with the configuration error.
C5_Witness ==
    \E r \in Invocations :
        /\ identity = "valid"
        /\ ~settings.project
        /\ runs[r].pc = "ended"
        /\ runs[r].outcome = "config"
        /\ status = [msg |-> UserMessage("config"), type |-> "error"]

(***************************************************************************)
(* Further properties of the page scan.                                    *)
(***************************************************************************)
\* C11 (as claimed): the timeline of a page with records has an entry on
\* every weekday from the 1st to the day of the latest record.
C11_Gapless ==
    (scanPc = "done" /\ rawPRs # <<>>) =>
        \A d \in 1..MonthDays :
            (Weekday(d) /\ d <= DateOf(rawPRs[Len(rawPRs)].date)) =>
                \E it \in Range(timeline) : it.entry.day = d

\* a stands before b in s.
Precedes(s, a, b) == \E i, j \in 1..Len(s) : i < j /\ s[i] = a /\ s[j] = b

\* The items of the returned timeline that Same relates stand in the order
\* in which the loop of lines 710-831 generated them.
KeepGenerationOrder(Same(_, _)) ==
    \A a, b \in Range(timeline) :
        (a # b /\ Same(a, b)) =>
            (Precedes(timeline, a, b) <=> Precedes(GenerateTimeline(rawPRs), a, b))

DaysDescending ==
    \A i, j \in 1..Len(timeline) :
        i < j => timeline[i].entry.day >= timeline[j].entry.day

\* C12 (as claimed): the returned entries are in descending order of
\* calendar date, and entries of the same calendar date stand in the order
\* in which they were generated.
C12_SameDayKeepsOrder ==
    scanPc = "done" =>
        /\ DaysDescending
        /\ KeepGenerationOrder(LAMBDA a, b : a.entry.day = b.entry.day)

\* C12 (amended): the returned entries are in descending order of their
\* instants, hence of calendar date, and entries of the same instant stand
\* in the order in which they were generated.
C12_NewestInstantFirst ==
    scanPc = "done" =>
        /\ \A i, j \in 1..Len(timeline) : i < j => timeline[i].date >= timeline[j].date
        /\ DaysDescending
        /\ KeepGenerationOrder(LAMBDA a, b : a.date = b.date)

\* A timeline with two done entries of one calendar date, the one merged
\* later in the day first, and with entries of other dates after them.
C12_Witness ==
    /\ scanPc = "done"
    /\ Len(timeline) >= 3
    /\ timeline[1].entry.day = timeline[2].entry.day
    /\ timeline[1].date > timeline[2].date
    /\ Precedes(GenerateTimeline(rawPRs), timeline[2], timeline[1])
    /\ timeline[3].entry.day < timeline[2].entry.day

\* The records of the scanned page that are dated on a Saturday or Sunday.
WeekendRecords == {r \in Range(rawPRs) : IsWeekend(GetDay(r.date))}

ReportEntries ==
    UNION {{[day |-> g[1].tag[1], dow |-> g[1].tag[2], type |-> g[i].type,
             status |-> g[i].status, title |-> g[i].title] : i \in 1..Len(g)} :
               g \in Range(extractedData)}

\* The records of the list pages ps in one list, page after page.
RECURSIVE RecordsOfPages(_)
RecordsOfPages(ps) ==
    IF ps = {} THEN <<>>
    ELSE LET i == CHOOSE k \in ps : \A j \in ps : k <= j
         IN  SortedRawPRs(ElementRows(site.pages[i])) \o RecordsOfPages(ps \ {i})

\* The entries of the timeline synthesized once from the records of the
\* list pages ps, without duplicates and sorted.
GlobalEntries(ps) ==
    Range(Entries(SortedTimeline(StableSort(Unique(RecordsOfPages(ps)), RawBefore))))

\* C14 (as claimed): the report of a run that scanned two list pages or
\* more shows the entries of the timeline synthesized once from the
\* records of all the pages it scanned.
C14_ReportIsGlobalTimeline ==
    \A r \in Invocations :
        (runs[r].pc = "ended" /\ runs[r].outcome = "report"
            /\ Cardinality(runs[r].pages) >= 2) =>
            ReportEntries = GlobalEntries(runs[r].pages)

\* A run has ended with a report shown.
ReportShown == \E r \in Invocations : runs[r].pc = "ended" /\ runs[r].outcome = "report"

\* C15: in the report every date tag of the unique entries heads exactly
\* one group, on its first line alone; every unique entry is a line of the
\* group of its date; and there are as many lines as unique entries.
C15_ReportGrouping ==
    ReportShown =>
        /\ \A i, j \in 1..Len(extractedData) :
              (i # j) => extractedData[i][1].tag # extractedData[j][1].tag
        /\ {g[1].tag : g \in Range(extractedData)} = {DateTag(e) : e \in Range(allPRs)}
        /\ \A g \in Range(extractedData) :
              \A i \in 1..Len(g) : (g[i].tag = <<>>) <=> (i > 1)
        /\ \A e \in Range(allPRs) : InReport(e)
        /\ ReportEntries = Range(allPRs)
        /\ NoDuplicateLines

\* A report with a group of two lines or more and another group.
C15_Witness ==
    /\ ReportShown
    /\ Len(extractedData) >= 2
    /\ \E g \in Range(extractedData) : Len(g) >= 2

\* C16: the list without duplicates that the report is made from holds
\* every distinct entry of the accumulated list once, in the order of
\* first occurrence, and removing duplicates from it again changes nothing.
C16_DedupeFirstOccurrence ==
    LET u == Unique(allPRs)
        FirstAt(e) == CHOOSE i \in 1..Len(allPRs) :
                          allPRs[i] = e /\ \A j \in 1..(i - 1) : allPRs[j] # e
    IN  /\ Range(u) = Range(allPRs)
        /\ Len(u) = Cardinality(Range(allPRs))
        /\ \A i, j \in 1..Len(u) : i < j => FirstAt(u[i]) < FirstAt(u[j])
        /\ Unique(u) = u
        /\ ReportShown => Cardinality(ReportEntries) = Len(u)

\* A report made from a list in which an entry stands twice, with another
\* entry between its copies.
C16_Witness ==
    /\ ReportShown
    /\ Len(allPRs) = 3
    /\ allPRs[1] = allPRs[3]
    /\ allPRs[1] # allPRs[2]
    /\ Cardinality(ReportEntries) = 2

(***************************************************************************)
(* Properties of the user identification                                   *)
(***************************************************************************)
\* What the five methods yield on the document, in the order of the code.
MethodYields ==
    <<FromScripts(dom), FromAttributes(dom), FromLinks(dom), FromGlobal(dom),
      FromMetas(dom)>>

C18_ErrorStopsPagination ==
    \A r \in Invocations :
        runs[r].failedAt > 0 =>
            /\ runs[r].pc \notin {"hasNext", "goNext", "nextWait"}
            /\ runs[r].pageCount = runs[r].failedAt

\* Run r reaches the end of processAllPullRequests in this step.
Finishes(r) ==
    /\ runs[r].pc # "ended"
    /\ runs'[r].pc = "ended"
    /\ runs'[r].outcome \in {"report", "empty"}

\* C19: a run that ends after the page limit stopped it leaves the notice
\* that it stopped after 20 pages as the status, with the accumulated
\* entries formatted and displayed.
C19_TruncationNoticeLeft ==
    [][\A r \in Invocations :
          (Finishes(r) /\ runs'[r].limitHit) =>
              /\ status'.msg = "Stopped after 20 pages to prevent infinite loop"
              /\ allPRs' # <<>> => (resultsShown' /\ extractedData' = FormatReport(allPRs'))]_vars

\* C20: a run that reaches the end of processAllPullRequests with nothing
\* accumulated leaves the message that no pull requests were found, as a
\* success, the results and the copy button hidden and the button enabled.
C20_EmptyRunOutcome ==
    [][\A r \in Invocations :
          (Finishes(r) /\ allPRs' = <<>>) =>
              /\ status' = [msg |-> "No pull requests found for current month",
                            type |-> "success"]
              /\ ~resultsShown'
              /\ copyHidden'
              /\ ~btnDisabled']_vars

\* A run has ended with nothing accumulated after an earlier run had shown
\* a report.
C20_Witness ==
    /\ \E r \in Invocations : runs[r].pc = "ended" /\ runs[r].outcome = "empty"
    /\ InFlight = {}
    /\ allPRs = <<>>
    /\ extractedData # <<>>
    /\ status.msg = "No pull requests found for current month"
    /\ ~resultsShown
    /\ copyHidden
    /\ ~btnDisabled

(***************************************************************************)
(* Properties of the copy button and of the failure messages               *)
(***************************************************************************)
\* C21: after a failed write to the clipboard the status area shows a
\* failure message, and the report displayed is as it was.
C21_CopyFailureReported ==
    clipboard.write = "failed" =>
        /\ status.type = "error"
        /\ resultsShown
        /\ extractedData = clipboard.data

\* The messages the catch block of the click handler can show.
FailureMessages ==
    {"Extension not configured!", "Unable to identify user.", "Network error.",
     "An error occurred during extraction."}

\* Run r ends in the catch block of the click handler in this step.
Fails(r) ==
    /\ runs[r].pc # "ended"
    /\ runs'[r].pc = "ended"
    /\ runs'[r].outcome \notin {"report", "empty"}

\* C22: when a run fails with an exception the status is an error with one
\* of the fixed messages: the not-configured one if the exception's text
\* mentions the missing configuration, else the unable-to-identify one if
\* it mentions the UUID, else the network or the generic one; it is never
\* the text of the exception.
C22_FixedFailureMessages ==
    [][\A r \in Invocations :
          Fails(r) =>
              LET text == runs'[r].thrown
                  config == Includes(text, <<"Extension", "not", "configured">>)
                  uuid == Includes(text, <<"UUID">>)
              IN  /\ text # <<>>
                  /\ status'.type = "error"
                  /\ status'.msg \in FailureMessages
                  /\ config => status'.msg = "Extension not configured!"
                  /\ (~config /\ uuid) => status'.msg = "Unable to identify user."
                  /\ (~config /\ ~uuid) =>
                        status'.msg \in {"Network error.",
                                         "An error occurred during extraction."}]_vars

\* A run has failed because the uuid answered was misshapen, and the user
\* reads that they could not be identified.
C22_Witness ==
    \E r \in Invocations :
        /\ runs[r].pc = "ended"
        /\ runs[r].thrown = InvalidUUIDError
        /\ InFlight = {}
        /\ status = [msg |-> "Unable to identify user.", type |-> "error"]

(***************************************************************************)
(* Properties of waitForContentReady and of the end of a run               *)
(***************************************************************************)
Waits == {"homeWait", "listWait", "nextWait"}

\* C23: a run of checkContent resolves the wait if the check succeeds or
\* if maxWait has elapsed, and otherwise is followed by another one after
\* the interval at least; the wait never rejects (the run neither fails
\* nor leaves its loop through the catch); and every wait is resolved in
\* the end.
C23_WaitAlwaysResolves ==
    /\ [][\A r \in Invocations :
             (runs[r].pc \in Waits /\ runs'[r] # runs[r]) =>
                 /\ runs'[r].thrown = <<>>
                 /\ runs'[r].rejected = "none"
                 /\ IF IsReady(runs[r].pc) \/ runs[r].elapsed >= MaxWaitOf(runs[r].pc)
                    THEN /\ runs'[r].pc = CASE runs[r].pc = "homeWait" -> "getUUID"
                                            [] runs[r].pc = "listWait" -> "extract"
                                            [] OTHER -> IF runs'[r].limitHit
                                                        THEN "ended" ELSE "extract"
                    ELSE /\ runs'[r].pc = runs[r].pc
                         /\ runs'[r].elapsed >= runs[r].elapsed + NextInterval(runs[r].elapsed)]_vars
    /\ \A r \in Invocations : (runs[r].pc \in Waits) ~> (runs[r].pc \notin Waits)

\* The wait for the Bitbucket home page has resolved although the page
\* never answered: the run goes on while the document is still loading.
C23_Witness ==
    \E r \in Invocations :
        /\ runs[r].pc = "getUUID"
        /\ doc = [state |-> "loading", shown |-> 0, target |-> 0]

(***************************************************************************)
(* Properties of sanitizeText                                              *)
(***************************************************************************)
\* The word stands somewhere in s, in any letter case.
Holds(s, word) == \E p \in 1..Len(s) : WordAt(s, word, p)

\* C24: the result of sanitizeText has no < followed somewhere by a >,
\* holds neither javascript: nor data: in any letter case, and has no
\* control character; it is empty for an argument that is empty or not a
\* string.
C24_SanitizedIsClean ==
    sanitized.done =>
        /\ ~ \E i, j \in 1..Len(sanitized.result) :
                i < j /\ sanitized.result[i] = "<" /\ sanitized.result[j] = ">"
        /\ ~Holds(sanitized.result, JavascriptScheme)
        /\ ~Holds(sanitized.result, DataScheme)
        /\ \A i \in 1..Len(sanitized.result) : sanitized.result[i] \notin ControlChars
        /\ (~sanitized.text.isString \/ sanitized.text.chars = <<>>)
              => sanitized.result = <<>>

(***************************************************************************)
(* Properties of a sequence of runs                                        *)
(***************************************************************************)
\* The entries the scans of the list pages ps return.
EntriesOfPages(ps) == UNION {Range(site.prs[i]) : i \in ps}

\* C25: from its click on, the accumulator holds what the scans of the
\* run in flight returned and nothing else, and the report a run ends
\* with holds only entries of pages that this run scanned.
C25_NoCrossRunEntries ==
    \A r \in Invocations :
        /\ r \in InFlight =>
              /\ Len(allPRs) = runs[r].received
              /\ Range(allPRs) \subseteq EntriesOfPages(runs[r].pages)
        /\ (runs[r].pc = "ended" /\ runs[r].outcome = "report") =>
              /\ Len(allPRs) = runs[r].received
              /\ ReportEntries \subseteq EntriesOfPages(runs[r].pages)

\* A run has just started while the report of an earlier run is displayed.
C25_Witness ==
    \E r \in Invocations :
        /\ runs[r].pc = "query"
        /\ allPRs = <<>>
        /\ extractedData # <<>>
        /\ resultsShown

(***************************************************************************)
(* Termination of the page scan                                            *)
(***************************************************************************)
\* C26: the date extraction of every row ends, so that the scan returns:
\* it never stays in the loop of a row.
C26_ScanTerminates == scanPc # "hung"

(***************************************************************************)
(* Progress of a run                                                       *)
(***************************************************************************)
\* C27: every run that was started ends; it ends with the report shown,
\* or with the message that nothing was found, or with an error message,
\* and with the button enabled; the button is disabled only while a run
\* is in flight.
C27_RunEndsAndReenables ==
    /\ [][\A r \in Invocations :
             (runs[r].pc # "ended" /\ runs'[r].pc = "ended") =>
                 /\ ~btnDisabled'
                 /\ \/ /\ runs'[r].outcome = "report"
                       /\ resultsShown'
                       /\ status'.type = "success"
                    \/ /\ runs'[r].outcome = "empty"
                       /\ ~resultsShown'
                       /\ status' = [msg |-> "No pull requests found for current month",
                                     type |-> "success"]
                    \/ /\ runs'[r].outcome \in {"config", "uuid", "network", "other"}
                       /\ status'.type = "error"]_vars
    /\ [](btnDisabled => InFlight # {})
    /\ \A r \in Invocations : (r \in InFlight) ~> (runs[r].pc = "ended")

\* A run on a list whose next control never ends has ended, and the button
\* is enabled again.
C27_Witness ==
    /\ InFlight = {}
    /\ ~btnDisabled
    /\ \E r \in Invocations :
          /\ runs[r].pc = "ended"
          /\ runs[r].limitHit
          /\ runs[r].outcome = "report"

(***************************************************************************)
(* Navigations and scans of a run                                          *)
(***************************************************************************)
\* C28: a run none of whose requests was rejected has asked for one
\* next page less than it has scanned pages: it does not go to a page
\* that it does not scan.
C28_NavigationsFollowedByScans ==
    \A r \in Invocations :
        (runs[r].pc = "ended" /\ runs[r].outcome \in {"report", "empty"}
            /\ runs[r].rejected = "none" /\ runs[r].scans >= 1) =>
            runs[r].navs = runs[r].scans - 1

(***************************************************************************)
(* Pages scanned more than once                                            *)
(***************************************************************************)
\* What the scans return when each of the list pages ps is scanned once,
\* page after page.
RECURSIVE ScannedOnce(_)
ScannedOnce(ps) ==
    IF ps = {} THEN <<>>
    ELSE LET i == CHOOSE k \in ps : \A j \in ps : k <= j
         IN  site.prs[i] \o ScannedOnce(ps \ {i})

\* C29: the report that a run ends with is the report of one scan of each
\* list page that the run scanned, however often it scanned them.
C29_RescanLeavesReport ==
    \A r \in Invocations :
        (runs[r].pc = "ended" /\ runs[r].outcome = "report") =>
            extractedData = FormatReport(ScannedOnce(runs[r].pages))

\* A run has ended with a report after scanning a page with entries more
\* than once.
C29_Witness ==
    \E r \in Invocations :
        /\ runs[r].pc = "ended" /\ runs[r].outcome = "report"
        /\ runs[r].failedAt = 0
        /\ runs[r].scans > Cardinality(runs[r].pages)
        /\ runs[r].received > Len(ScannedOnce(runs[r].pages))

(***************************************************************************)
(* The listener                                                            *)
(***************************************************************************)
\* C30: once the listener has been called with a message, then for a
\* message without a string action, from another sender or with an action
\* outside the whitelist it has called no operation, clicked nothing, sent
\* no response and returned false; for a whitelisted action from the
\* extension it has called the matching operation once and sent one
\* response, the error object if the operation throws.
C30_ListenerAnswersOnce ==
    listener.state \in {"running", "returned"} =>
        IF Refused(listener.request, listener.sender)
        THEN /\ listener.called = <<>>
             /\ listener.clicks = 0
             /\ listener.responses = <<>>
             /\ listener.returned = "false"
        ELSE /\ listener.called = <<Operation(listener.request.action)>>
             /\ Len(listener.responses) = 1
             /\ listener.fails => listener.responses = <<"error">>

====
